---- MODULE Spec2Model ----
(***************************************************************************)
(* Denoising auto-encoder of latent/dA.py: the dA object (tied weights,    *)
(* stochastic corruption), the training loop train() that drives a climin  *)
(* optimizer over minibatches, and the command dispatch main(argv).        *)
(*                                                                         *)
(* Numbers: a probability or corruption level is an integer number of      *)
(* tenths (One = 1.0).  A parameter value is kept symbolically: the        *)
(* sequence of gradient components that the optimizer has subtracted from  *)
(* its random initial value, in order.  <<>> is the initial value.         *)
(***************************************************************************)
EXTENDS Integers, Sequences, FiniteSets, TLC

VARIABLES
    training_epochs,   \* train(): argument
    batch_size,        \* train(): argument; <<>> is None, <<k>> is the int k
    n_hidden,          \* train(): argument
    optimizer,         \* train(): argument
    corruption_level,  \* train() / get_corrupted_input: argument, in tenths
    pc,                \* position in the running function
    retval,            \* <<>> while running or when None is returned, else <<v>>
    exc,               \* "" or the name of the exception that was raised
    stdout,            \* sequence of printed messages
    flat,              \* climin's flat parameter array (symbolic entries)
    W, b, b_prime,     \* the dA's shared variables
    n_train_batches,   \* local of train(): <<>> while unbound, else <<n>>
    n_iter,            \* optimizer steps completed (info['n_iter'])
    grad_calls,        \* calls of d_loss_wrt_pars begun
    rng_state,         \* state of theano_rng: number of draws made
    evalLog,           \* one entry per completed evaluation of the graph
    x_in,              \* input batch of the last evaluation of the graph
    mask,              \* get_corrupted_input on its own: the mask drawn
    tilde_x,           \* get_corrupted_input on its own: the result
    lastGrad,          \* vector returned by the last d_loss_wrt_pars
    lastGradAt,        \* parameter values the last gradient was evaluated at
    lastGradArg,       \* the `parameters` argument of the last d_loss_wrt_pars
    pickled,           \* autoencoder.pkl has been written
    argv,              \* main(): argument
    calls,             \* functions main() has invoked
    exit_status        \* <<>> while running, else <<status of the process>>

vars == <<training_epochs, batch_size, n_hidden, optimizer, corruption_level,
          pc, retval, exc, stdout, flat, W, b, b_prime, n_train_batches,
          n_iter, grad_calls, rng_state, evalLog, x_in, mask, tilde_x,
          lastGrad, lastGradAt, lastGradArg, pickled, argv, calls, exit_status>>

----------------------------------------------------------------------------
(* Bounds of the model *)

\* number of visible units; stands for the 28 * 28 of train()
NVisible == 2
\* largest n_hidden passed to train()
MaxHidden == 2
\* rows of the training split returned by load_data
TrainSetSize == 2
\* largest batch_size passed to train()
MaxBatchSize == 3
\* largest training_epochs passed to train()
MaxEpochs == 3
\* most rows of a batch handed to get_corrupted_input on its own
MaxRows == 1
\* pixel intensities are 0..MaxPixel, in units of 1/MaxPixel
MaxPixel == 1
\* most words on the command line
MaxArgc == 3
\* most draws the random source has served before get_corrupted_input is called
MaxDraws == 2

\* the literal 1 of `1 - corruption_level`, in tenths
One == 10

\* corruption levels tried: below the range, 0, the default .3, 1, above
Levels == {0 - 5, 0, 3, One, One + 5}
Optimizers == {"gd", "rmsprop", "adam"}

----------------------------------------------------------------------------
(* Arrays *)

Matrix(rows, cols, f(_, _)) == [r \in 1..rows |-> [c \in 1..cols |-> f(r, c)]]

NRows(m) == Len(m)
NCols(m) == IF Len(m) = 0 THEN 0 ELSE Len(m[1])

\* numpy reshape of a flat sequence, row-major
Reshape(data, rows, cols) ==
    [r \in 1..rows |-> [c \in 1..cols |-> data[(r - 1) * cols + c]]]

\* ndarray.flatten(), row-major
RECURSIVE Flatten(_)
Flatten(m) == IF Len(m) = 0 THEN <<>> ELSE m[1] \o Flatten(Tail(m))

Transpose(m) == [c \in 1..NCols(m) |-> [r \in 1..NRows(m) |-> m[r][c]]]

Min(x, y) == IF x < y THEN x ELSE y

----------------------------------------------------------------------------
(* Parameter storage: climin views and theano shared variables *)

\* climin.util.empty_with_views(tmpl), tmpl = [(28*28, n_hidden), n_hidden, 28*28]:
\* one flat array and three views of it, laid out in the template's order
tmpl(nh) == << <<NVisible, nh>>, <<nh>>, <<NVisible>> >>

Size(shape) == IF Len(shape) = 2 THEN shape[1] * shape[2] ELSE shape[1]

RECURSIVE ViewOffset(_, _)
ViewOffset(t, k) == IF k = 1 THEN 0 ELSE ViewOffset(t, k - 1) + Size(t[k - 1])

FlatLen(nh) == ViewOffset(tmpl(nh), 3) + Size(tmpl(nh)[3])

View(nh, k) == [off |-> ViewOffset(tmpl(nh), k), shape |-> tmpl(nh)[k]]

Weights(nh) == View(nh, 1)
bias_hidden(nh) == View(nh, 2)
bias_visible(nh) == View(nh, 3)

\* the part of the flat array a view covers
Deref(fl, view) == SubSeq(fl, view.off + 1, view.off + Size(view.shape))

\* theano.shared(value, borrow): with borrow the variable aliases the array it is
\* given, without it the variable holds a copy made at construction
theano_shared(fl, view, borrow) ==
    [alias |-> borrow,
     off   |-> view.off,
     shape |-> view.shape,
     data  |-> IF borrow THEN <<>> ELSE Deref(fl, view)]

NoShared == [alias |-> FALSE, off |-> 0, shape |-> <<>>, data |-> <<>>]

\* the current value of a shared variable, flattened
get_value(sv, fl) ==
    IF sv.alias THEN Deref(fl, [off |-> sv.off, shape |-> sv.shape]) ELSE sv.data

\* faulty variant: the weights are copied into the shared variable
da_W_copied(fl, nh) == theano_shared(fl, Weights(nh), FALSE)
\* W = theano.shared(value = Weights, name = 'W', borrow = True)
da_W(fl, nh) == theano_shared(fl, Weights(nh), TRUE)
\* bhid = theano.shared(value = bias_hidden, name = 'b', borrow = True); self.b = bhid
da_b(fl, nh) == theano_shared(fl, bias_hidden(nh), TRUE)
\* bvis = theano.shared(value = bias_visible, ...); self.b_prime = bvis
da_b_prime(fl, nh) == theano_shared(fl, bias_visible(nh), TRUE)

\* the value of self.W as a matrix
W_value(sv, fl) == Reshape(get_value(sv, fl), sv.shape[1], sv.shape[2])

\* faulty variant: the decode matrix is the transpose taken once, at construction
W_prime_stale(sv, fl) ==
    [c \in 1..sv.shape[2] |-> [r \in 1..sv.shape[1] |-> <<>>]]
\* self.W_prime = self.W.T: a symbolic transpose, evaluated where it is used
W_prime(sv, fl) == Transpose(W_value(sv, fl))

----------------------------------------------------------------------------
(* Corruption model *)

\* faulty variant: the mask keeps an entry with probability corruption_level
keep_prob_swapped(level) == level
\* p = 1 - corruption_level
keep_prob(level) == One - level

\* theano_rng.binomial(size = (rows, cols), n = 1, p = p): the masks a draw can
\* give.  p = 1 gives only ones, p = 0 only zeros; numpy refuses p outside [0, 1]
\* with a ValueError when the graph is evaluated, which is the empty set here.
binomial(rows, cols, p) ==
    IF p < 0 \/ p > One THEN {}
    ELSE IF p = One THEN {Matrix(rows, cols, LAMBDA r, c : 1)}
    ELSE IF p = 0 THEN {Matrix(rows, cols, LAMBDA r, c : 0)}
    ELSE [1..rows -> [1..cols -> {0, 1}]]

\* the masks get_corrupted_input can draw for `input`
corruption_masks(input, level) ==
    binomial(NRows(input), NCols(input), keep_prob(level))

\* get_corrupted_input: binomial(size = input.shape, ...) * input, for the mask m
get_corrupted_input(input, m) ==
    Matrix(NRows(m), NCols(m), LAMBDA r, c : m[r][c] * input[r][c])

\* faulty variant: an evaluation leaves the random stream where it was
rng_update_stuck(state) == state
\* RandomStreams: every evaluation of a compiled function that holds the
\* binomial node replaces the stream's state by its successor
rng_update(state) == state + 1

----------------------------------------------------------------------------
(* Data and minibatches *)

PixelVals == 0..MaxPixel

\* datasets[0][0]: the features of the training split
train_set_x == Matrix(TrainSetSize, NVisible, LAMBDA r, c : (r + c) % (MaxPixel + 1))

\* cli.util.iter_minibatches([train_set_x, train_set_y], batch_size, [0, 0]):
\* slices of batch_size rows (the last one of a pass may be shorter), pass after
\* pass without end; t counts the batches already taken
batches_in_pass(bs) == (TrainSetSize + bs - 1) \div bs

minibatch(t, bs) ==
    LET j == t % batches_in_pass(bs)
    IN  SubSeq(train_set_x, j * bs + 1, Min((j + 1) * bs, TrainSetSize))

\* args: itertools.repeat of the whole split when batch_size is None, the
\* minibatch iterator otherwise
next_args(t, bsz) == IF bsz = <<>> THEN train_set_x ELSE minibatch(t, bsz[1])

----------------------------------------------------------------------------
(* Gradient provider *)

\* self.gparams = T.grad(self.cost, self.params), params = [W, b, b_prime]:
\* one array per parameter, of the parameter's shape; the entry for a parameter
\* entry is its partial derivative at evaluation e
gparams(nh, e) ==
    << Matrix(NVisible, nh, LAMBDA i, j : [p |-> "W", i |-> i, j |-> j, eval |-> e]),
       [i \in 1..nh |-> [p |-> "b", i |-> i, j |-> 0, eval |-> e]],
       [i \in 1..NVisible |-> [p |-> "b_prime", i |-> i, j |-> 0, eval |-> e]] >>

\* d_loss_wrt_pars: g_W, g_b_hidden, g_b_vis = g_params_da(inputs);
\* np.concatenate([g_W.flatten(), g_b_hidden, g_b_vis])
d_loss_wrt_pars(nh, e) ==
    LET g == gparams(nh, e)
        g_W == g[1]
        g_b_hidden == g[2]
        g_b_vis == g[3]
    IN  Flatten(g_W) \o g_b_hidden \o g_b_vis

\* the values of self.params the compiled functions read
params_read(w, bh, bv, fl) == get_value(w, fl) \o get_value(bh, fl) \o get_value(bv, fl)

\* one optimizer update (GradientDescent and RmsProp alike): wrt -= step, in
\* place, the step of entry k computed from entry k of the gradient
opt_update(fl, g) == [k \in 1..Len(fl) |-> Append(fl[k], g[k])]

----------------------------------------------------------------------------
(* State before anything has run *)

Msg(text, n) == [msg |-> text, n |-> n]

Idle ==
    /\ retval = <<>>
    /\ exc = ""
    /\ stdout = <<>>
    /\ flat = <<>>
    /\ W = NoShared
    /\ b = NoShared
    /\ b_prime = NoShared
    /\ n_train_batches = <<>>
    /\ n_iter = 0
    /\ grad_calls = 0
    /\ evalLog = <<>>
    /\ mask = <<>>
    /\ tilde_x = <<>>
    /\ lastGrad = <<>>
    /\ lastGradAt = <<>>
    /\ lastGradArg = <<>>
    /\ pickled = FALSE
    /\ calls = <<>>
    /\ exit_status = <<>>

BatchSizes == {<<>>} \cup {<<k>> : k \in 1..MaxBatchSize}

\* train(learning_rate, training_epochs, dataset, batch_size, n_hidden,
\*       optimizer, sparsity_lambda, corruption_level) has just been called
Init ==
    /\ training_epochs \in 1..MaxEpochs
    /\ batch_size \in BatchSizes
    /\ n_hidden \in 1..MaxHidden
    /\ optimizer \in Optimizers
    /\ corruption_level \in Levels
    /\ pc = "train"
    /\ rng_state = 0
    /\ x_in = <<>>
    /\ argv = <<>>
    /\ Idle

args_vars == <<training_epochs, batch_size, n_hidden, optimizer, corruption_level>>
main_vars == <<argv, calls, exit_status>>
eval_vars == <<rng_state, evalLog, x_in, mask, tilde_x>>
grad_vars == <<lastGrad, lastGradAt, lastGradArg>>

----------------------------------------------------------------------------
(* train() *)

\* load the data, allocate the flat parameter array and its views, construct the
\* dA around shared variables of the views, compile loss and g_params_da, and
\* set up the batch iterator.  dA.__init__ only builds the symbolic graph: it
\* looks at no value of corruption_level and evaluates nothing.
BuildModel ==
    /\ pc = "train"
    /\ flat' = [k \in 1..FlatLen(n_hidden) |-> <<>>]
    /\ W' = da_W(flat', n_hidden)
    /\ b' = da_b(flat', n_hidden)
    /\ b_prime' = da_b_prime(flat', n_hidden)
    /\ IF batch_size = <<>>
       THEN /\ n_train_batches' = <<>>
            /\ stdout' = stdout \o << Msg("... building the model", 0),
                                      Msg("... training on the full train set", 0) >>
       ELSE /\ n_train_batches' = << TrainSetSize \div batch_size[1] >>
            /\ stdout' = stdout \o << Msg("... building the model", 0),
                                      Msg("... training on minibatches",
                                          TrainSetSize \div batch_size[1]) >>
    /\ pc' = "select_optimizer"
    /\ UNCHANGED <<args_vars, main_vars, eval_vars, grad_vars,
                   retval, exc, n_iter, grad_calls, pickled>>

\* if optimizer == 'gd': ... elif optimizer == 'rmsprop': ...
CreateOptimizer ==
    /\ pc = "select_optimizer"
    /\ optimizer \in {"gd", "rmsprop"}
    /\ stdout' = Append(stdout, Msg(IF optimizer = "gd"
                                    THEN "... using gradient descent"
                                    ELSE "... using rmsprop", 0))
    /\ pc' = "opt_next"
    /\ UNCHANGED <<args_vars, main_vars, eval_vars, grad_vars, retval, exc, flat,
                   W, b, b_prime, n_train_batches, n_iter, grad_calls, pickled>>

\* faulty variant: an unknown optimizer name silently falls back to rmsprop
UnknownOptimizerDefaults ==
    /\ pc = "select_optimizer"
    /\ optimizer \notin {"gd", "rmsprop"}
    /\ stdout' = Append(stdout, Msg("... using rmsprop", 0))
    /\ pc' = "opt_next"
    /\ UNCHANGED <<args_vars, main_vars, eval_vars, grad_vars, retval, exc, flat,
                   W, b, b_prime, n_train_batches, n_iter, grad_calls, pickled>>

\* else: print('unknown optimizer'); return -1
UnknownOptimizer ==
    /\ pc = "select_optimizer"
    /\ optimizer \notin {"gd", "rmsprop"}
    /\ stdout' = Append(stdout, Msg("unknown optimizer", 0))
    /\ retval' = << 0 - 1 >>
    /\ pc' = "returned"
    /\ UNCHANGED <<args_vars, main_vars, eval_vars, grad_vars, exc, flat,
                   W, b, b_prime, n_train_batches, n_iter, grad_calls, pickled>>

\* `for info in opt`: the optimizer takes the next batch, calls d_loss_wrt_pars
\* on it (one evaluation of g_params_da, which draws a mask), updates the flat
\* array in place and yields info with n_iter counted up.  The mask and the
\* corrupted batch are temporaries of the evaluation; the gradient they lead to
\* is named by the draw that produced the mask.
OptStep ==
    /\ pc = "opt_next"
    /\ LET batch == next_args(n_iter, batch_size)
       IN  /\ corruption_masks(batch, corruption_level) # {}
           /\ x_in' = batch
           /\ evalLog' = Append(evalLog, [kind |-> "grad", rng |-> rng_state])
           /\ rng_state' = rng_update(rng_state)
           /\ lastGradArg' = flat
           /\ lastGradAt' = params_read(W, b, b_prime, flat)
           /\ lastGrad' = d_loss_wrt_pars(n_hidden, rng_state)
           /\ flat' = opt_update(flat, lastGrad')
    /\ grad_calls' = grad_calls + 1
    /\ n_iter' = n_iter + 1
    /\ pc' = "loop_body"
    /\ UNCHANGED <<args_vars, main_vars, mask, tilde_x, retval, exc, stdout,
                   W, b, b_prime, n_train_batches, pickled>>

\* the same call when 1 - corruption_level is no probability: the binomial node
\* raises ValueError inside the first evaluation of g_params_da
OptStepRaises ==
    /\ pc = "opt_next"
    /\ corruption_masks(next_args(n_iter, batch_size), corruption_level) = {}
    /\ grad_calls' = grad_calls + 1
    /\ exc' = "ValueError"
    /\ pc' = "raised"
    /\ UNCHANGED <<args_vars, main_vars, eval_vars, grad_vars, retval, stdout, flat,
                   W, b, b_prime, n_train_batches, n_iter, pickled>>

\* the loop body when batch_size was None: n_train_batches was never assigned
LoopBodyUnbound ==
    /\ pc = "loop_body"
    /\ n_train_batches = <<>>
    /\ exc' = "UnboundLocalError"
    /\ pc' = "raised"
    /\ UNCHANGED <<args_vars, main_vars, eval_vars, grad_vars, retval, stdout, flat,
                   W, b, b_prime, n_train_batches, n_iter, grad_calls, pickled>>

\* the loop body when batch_size exceeds the training split: iter // 0
LoopBodyZeroDivision ==
    /\ pc = "loop_body"
    /\ n_train_batches = <<0>>
    /\ exc' = "ZeroDivisionError"
    /\ pc' = "raised"
    /\ UNCHANGED <<args_vars, main_vars, eval_vars, grad_vars, retval, stdout, flat,
                   W, b, b_prime, n_train_batches, n_iter, grad_calls, pickled>>

\* iter = info['n_iter'] - 1; epoch = iter // n_train_batches + 1
\* if (iter + 1) % n_train_batches == 0: print(... loss(train_set_x))
\* if epoch >= training_epochs: break
LoopBody ==
    /\ pc = "loop_body"
    /\ n_train_batches # <<>>
    /\ n_train_batches # <<0>>
    /\ LET iter == n_iter - 1
           epoch == (iter \div n_train_batches[1]) + 1
       IN  /\ IF (iter + 1) % n_train_batches[1] = 0
              THEN /\ corruption_masks(train_set_x, corruption_level) # {}
                   /\ x_in' = train_set_x
                   /\ evalLog' = Append(evalLog, [kind |-> "loss", rng |-> rng_state])
                   /\ rng_state' = rng_update(rng_state)
                   /\ stdout' = Append(stdout, Msg("training epoch, cost", epoch))
              ELSE UNCHANGED <<rng_state, evalLog, x_in, stdout>>
           /\ pc' = IF epoch >= training_epochs THEN "after_loop" ELSE "opt_next"
    /\ UNCHANGED <<args_vars, main_vars, grad_vars, mask, tilde_x, retval, exc, flat,
                   W, b, b_prime, n_train_batches, n_iter, grad_calls, pickled>>

\* after the loop: report the time, pickle the dA to autoencoder.pkl, return 1
Finish ==
    /\ pc = "after_loop"
    /\ pickled' = TRUE
    /\ retval' = <<1>>
    /\ pc' = "returned"
    /\ UNCHANGED <<args_vars, main_vars, eval_vars, grad_vars, exc, stdout, flat,
                   W, b, b_prime, n_train_batches, n_iter, grad_calls>>

Next ==
    \/ BuildModel
    \/ CreateOptimizer
    \/ UnknownOptimizer
    \/ OptStep
    \/ OptStepRaises
    \/ LoopBodyUnbound
    \/ LoopBodyZeroDivision
    \/ LoopBody
    \/ Finish

Spec == Init /\ [][Next]_vars

----------------------------------------------------------------------------
(* Properties of train() *)

ValidOptimizer == optimizer \in {"gd", "rmsprop"}
ValidLevel == corruption_level >= 0 /\ corruption_level <= One

\* the loop has been left by its break and train() ends normally
HaltedNormally == pc = "after_loop" \/ (pc = "returned" /\ retval = <<1>>)

\* steps per epoch, where it is defined and at least 1
HasEpochLength == n_train_batches # <<>> /\ n_train_batches # <<0>>

\* the epochs whose cost has been printed, in the order of printing
CostReports == SelectSeq(stdout, LAMBDA m : m.msg = "training epoch, cost")

\* C1: for training_epochs >= 1 and n = floor(train_set_size / batch_size) >= 1
\* the loop halts after exactly training_epochs * n optimizer steps.
C1_HaltsAfterAllEpochs ==
    (HaltedNormally /\ HasEpochLength)
        => n_iter = training_epochs * n_train_batches[1]

\* C2: a run that halts normally has reported the full-training-set cost once
\* for each of the epochs 1..training_epochs, the last one included.
C2_CostReportedEveryEpoch ==
    (HaltedNormally /\ HasEpochLength)
        => /\ Len(CostReports) = training_epochs
           /\ \A e \in 1..Len(CostReports) : CostReports[e].n = e

\* C3: with an optimizer name other than 'gd' and 'rmsprop', train() returns the
\* error value before any optimizer step is attempted: no gradient is evaluated,
\* no step is made, no parameter leaves its initial value, no file is written.
C3_UnknownOptimizerRejected ==
    ~ValidOptimizer
        => /\ pc \in {"train", "select_optimizer", "returned"}
           /\ grad_calls = 0
           /\ n_iter = 0
           /\ evalLog = <<>>
           /\ \A k \in 1..Len(flat) : flat[k] = <<>>
           /\ ~pickled
           /\ exc = ""
           /\ pc = "returned"
                => /\ retval = << 0 - 1 >>
                   /\ stdout[Len(stdout)].msg = "unknown optimizer"

C3_Witness ==
    /\ pc = "returned"
    /\ optimizer = "adam"
    /\ retval = << 0 - 1 >>
    /\ Len(flat) > 0

\* C4: with batch_size None the whole split is one batch, one step is one epoch,
\* and the loop runs until training_epochs epochs are done and then completes
\* normally.
C4_FullBatchCompletes ==
    (batch_size = <<>> /\ ValidOptimizer /\ ValidLevel)
        => /\ exc = ""
           /\ pc = "returned" => (retval = <<1>> /\ n_iter = training_epochs)

\* C5: a corruption_level outside [0,1] is rejected as a configuration error
\* before any forward pass, gradient evaluation or optimizer step: no call of
\* the gradient function is ever begun with it, and train() does not return
\* success.
C5_BadCorruptionRejected ==
    ~ValidLevel
        => /\ grad_calls = 0
           /\ pc = "returned" => retval = << 0 - 1 >>

\* the parameter entry that lives at index k of the flat array when the layout
\* is W row-major, then b, then b_prime
EntryAt(k, nh) ==
    IF k <= NVisible * nh
    THEN [p |-> "W", i |-> ((k - 1) \div nh) + 1, j |-> ((k - 1) % nh) + 1]
    ELSE IF k <= NVisible * nh + nh
    THEN [p |-> "b", i |-> k - NVisible * nh, j |-> 0]
    ELSE [p |-> "b_prime", i |-> k - NVisible * nh - nh, j |-> 0]

WrtOf(g) == [p |-> g.p, i |-> g.i, j |-> g.j]

Constructed == pc # "train"

\* C7: in every state from construction on, through any number of optimizer
\* steps, the decode matrix W_prime is the transpose of the current W (the
\* values the optimizer last wrote), and W, b and b_prime keep the shapes
\* (n_visible x n_hidden), (n_hidden) and (n_visible) they were built with.
C7_TiedWeightsAndShapes ==
    Constructed
        => /\ NRows(W_prime(W, flat)) = n_hidden
           /\ \A j \in 1..n_hidden :
                /\ Len(W_prime(W, flat)[j]) = NVisible
                /\ \A i \in 1..NVisible :
                     /\ W_prime(W, flat)[j][i] = W_value(W, flat)[i][j]
                     /\ W_prime(W, flat)[j][i] = flat[(i - 1) * n_hidden + j]
           /\ W.shape = <<NVisible, n_hidden>>
           /\ Len(get_value(W, flat)) = NVisible * n_hidden
           /\ b.shape = <<n_hidden>>
           /\ Len(get_value(b, flat)) = n_hidden
           /\ b_prime.shape = <<NVisible>>
           /\ Len(get_value(b_prime, flat)) = NVisible

C7_Witness ==
    /\ n_iter >= 2
    /\ n_hidden = MaxHidden
    /\ pc = "returned"
    /\ W_prime(W, flat)[n_hidden][1] # <<>>

KindCount(kind) == Len(SelectSeq(evalLog, LAMBDA e : e.kind = kind))

\* C9: every evaluation of the forward pass during training, the gradient
\* evaluation of each optimizer step and each epoch-boundary cost evaluation,
\* draws its mask at a state of the random source that no earlier evaluation
\* drew at, and advances the source.
C9_FreshMaskEveryEvaluation ==
    /\ \A i \in 1..Len(evalLog) : \A k \in 1..Len(evalLog) :
         i # k => evalLog[i].rng # evalLog[k].rng
    /\ \A i \in 1..Len(evalLog) : evalLog[i].rng < rng_state
    /\ KindCount("grad") = n_iter
    /\ KindCount("loss") = Len(CostReports)
    /\ \A k \in 1..Len(flat) : \A t \in 1..Len(flat[k]) :
         /\ \E i \in 1..Len(evalLog) :
              evalLog[i].kind = "grad" /\ evalLog[i].rng = flat[k][t].eval
         /\ \A u \in 1..Len(flat[k]) : u # t => flat[k][u].eval # flat[k][t].eval

C9_Witness ==
    /\ KindCount("grad") >= 3
    /\ KindCount("loss") >= 2
    /\ corruption_level = 3
    /\ evalLog[Len(evalLog)].kind = "loss"

\* C10: after every optimizer step W, b and b_prime equal the slices of the
\* flat vector in the order W row-major, b, b_prime; the gradient vector has the
\* same order and lengths; the gradient was evaluated at the values the flat
\* vector held when it was requested; and every update an entry has received is
\* the partial derivative with respect to that entry.
C10_FlatAndParamsAgree ==
    n_iter >= 1
        => /\ Len(flat) = NVisible * n_hidden + n_hidden + NVisible
           /\ get_value(W, flat) = SubSeq(flat, 1, NVisible * n_hidden)
           /\ get_value(b, flat) =
                SubSeq(flat, NVisible * n_hidden + 1, NVisible * n_hidden + n_hidden)
           /\ get_value(b_prime, flat) =
                SubSeq(flat, NVisible * n_hidden + n_hidden + 1, Len(flat))
           /\ Len(lastGrad) = Len(flat)
           /\ \A k \in 1..Len(lastGrad) : WrtOf(lastGrad[k]) = EntryAt(k, n_hidden)
           /\ lastGradAt = lastGradArg
           /\ \A k \in 1..Len(flat) :
                /\ Len(flat[k]) = n_iter
                /\ \A t \in 1..Len(flat[k]) : WrtOf(flat[k][t]) = EntryAt(k, n_hidden)

C10_Witness ==
    /\ n_iter >= 2
    /\ n_hidden = MaxHidden
    /\ pc = "loop_body"
    /\ lastGradAt # [k \in 1..Len(flat) |-> <<>>]

----------------------------------------------------------------------------
(* get_corrupted_input on its own *)

Batches(rows) == [1..rows -> [1..NVisible -> PixelVals]]

\* a dA with some corruption_level is about to corrupt some batch, its random
\* source having served some number of draws already
InitCorrupt ==
    /\ \E rows \in 1..MaxRows : x_in \in Batches(rows)
    /\ corruption_level \in Levels
    /\ rng_state \in 0..MaxDraws
    /\ pc = "corrupt"
    /\ training_epochs = 1
    /\ batch_size = <<>>
    /\ n_hidden = 1
    /\ optimizer = "gd"
    /\ argv = <<>>
    /\ Idle

\* one evaluation of get_corrupted_input(x_in, corruption_level); the random
\* source is left advanced
CorruptReturns ==
    /\ pc = "corrupt"
    /\ \E m \in corruption_masks(x_in, corruption_level) :
         /\ mask' = m
         /\ tilde_x' = get_corrupted_input(x_in, m)
    /\ rng_state' = rng_update(rng_state)
    /\ evalLog' = Append(evalLog, [kind |-> "corrupt", rng |-> rng_state])
    /\ pc' = "corrupted"
    /\ UNCHANGED <<args_vars, main_vars, grad_vars, x_in, retval, exc, stdout, flat,
                   W, b, b_prime, n_train_batches, n_iter, grad_calls, pickled>>

\* the evaluation when 1 - corruption_level is no probability
CorruptRaises ==
    /\ pc = "corrupt"
    /\ corruption_masks(x_in, corruption_level) = {}
    /\ exc' = "ValueError"
    /\ pc' = "raised"
    /\ UNCHANGED <<args_vars, main_vars, eval_vars, grad_vars, retval, stdout, flat,
                   W, b, b_prime, n_train_batches, n_iter, grad_calls, pickled>>

NextCorrupt ==
    \/ CorruptReturns
    \/ CorruptRaises

SpecCorrupt == InitCorrupt /\ [][NextCorrupt]_vars

\* C6: whenever get_corrupted_input returns, the result has the shape of the
\* input and each entry is the input entry times a mask entry that is 0 or 1;
\* with corruption_level 0 the result is the input, with corruption_level 1 it
\* is all zeros, at every state of the random source.
C6_CorruptionMasksInput ==
    pc = "corrupted"
        => /\ NRows(tilde_x) = NRows(x_in)
           /\ \A r \in 1..NRows(x_in) :
                /\ Len(tilde_x[r]) = Len(x_in[r])
                /\ \A c \in 1..Len(x_in[r]) :
                     /\ mask[r][c] \in {0, 1}
                     /\ tilde_x[r][c] = mask[r][c] * x_in[r][c]
                     /\ corruption_level = 0 => tilde_x[r][c] = x_in[r][c]
                     /\ corruption_level = One => tilde_x[r][c] = 0
           /\ corruption_level = 0 => tilde_x = x_in

C6_Witness ==
    /\ pc = "corrupted"
    /\ corruption_level = One
    /\ rng_state = MaxDraws + 1
    /\ \A r \in 1..NRows(x_in) : \A c \in 1..Len(x_in[r]) : x_in[r][c] = MaxPixel
    /\ \A r \in 1..NRows(x_in) : \A c \in 1..Len(x_in[r]) : tilde_x[r][c] = 0

----------------------------------------------------------------------------
(* main(argv) and the process exit *)

Words == {"train", "plot", "reconstructions", "repflds", "bogus"}

InitMain ==
    /\ \E n \in 0..MaxArgc : argv \in [1..n -> Words]
    /\ pc = "main"
    /\ training_epochs = 1
    /\ batch_size = <<>>
    /\ n_hidden = 1
    /\ optimizer = "gd"
    /\ corruption_level = 0
    /\ rng_state = 0
    /\ x_in = <<>>
    /\ Idle

\* sys.exit(main(sys.argv[1:])): the status of the process for a returned value
\* (None is 0, an int is taken modulo 256); an uncaught exception gives 1
exit_code(ret) == IF ret = <<>> THEN 0 ELSE ret[1] % 256

train_vars == <<flat, W, b, b_prime, n_train_batches, n_iter, grad_calls, pickled>>

\* if len(argv) < 1: print(...); return -1
MainNoArgs ==
    /\ pc = "main"
    /\ Len(argv) < 1
    /\ stdout' = Append(stdout, Msg("please call with at least 1 argument", 0))
    /\ retval' = << 0 - 1 >>
    /\ exit_status' = << exit_code(retval') >>
    /\ pc' = "exit"
    /\ UNCHANGED <<args_vars, eval_vars, grad_vars, train_vars, argv, calls, exc>>

\* if command == 'train': return train().  The call is train() with its default
\* arguments, whose optimizer is 'rmsprop': it returns 1, or an exception of its
\* collaborators (the dataset, the file system) passes through.
MainTrain ==
    /\ pc = "main"
    /\ Len(argv) >= 1
    /\ argv[1] = "train"
    /\ calls' = Append(calls, "train")
    /\ \/ /\ retval' = <<1>>
          /\ exit_status' = << exit_code(retval') >>
          /\ exc' = exc
       \/ /\ exc' = "Exception"
          /\ exit_status' = <<1>>
          /\ retval' = retval
    /\ pc' = "exit"
    /\ UNCHANGED <<args_vars, eval_vars, grad_vars, train_vars, argv, stdout>>

\* elif command == 'plot': if len(argv) < 2: print(...); return -1
MainPlotMissing ==
    /\ pc = "main"
    /\ Len(argv) = 1
    /\ argv[1] = "plot"
    /\ stdout' = Append(stdout, Msg("please define what element to plot", 0))
    /\ retval' = << 0 - 1 >>
    /\ exit_status' = << exit_code(retval') >>
    /\ pc' = "exit"
    /\ UNCHANGED <<args_vars, eval_vars, grad_vars, train_vars, argv, calls, exc>>

\* return plot(argv[1]).  plot() prints and falls off its end (None) for the
\* two elements it knows, unless unpickling or the image file fails; for any
\* other element the format string "... %" % element raises ValueError.
MainPlot ==
    /\ pc = "main"
    /\ Len(argv) >= 2
    /\ argv[1] = "plot"
    /\ calls' = Append(calls, "plot")
    /\ \/ /\ argv[2] \in {"reconstructions", "repflds"}
          /\ stdout' = Append(stdout, Msg(IF argv[2] = "reconstructions"
                                          THEN "... plot reconstructions"
                                          ELSE "... plot receptive fields", 0))
          /\ retval' = <<>>
          /\ exit_status' = << exit_code(retval') >>
          /\ exc' = exc
       \/ /\ argv[2] \in {"reconstructions", "repflds"}
          /\ exc' = "Exception"
          /\ exit_status' = <<1>>
          /\ UNCHANGED <<stdout, retval>>
       \/ /\ argv[2] \notin {"reconstructions", "repflds"}
          /\ exc' = "ValueError"
          /\ exit_status' = <<1>>
          /\ UNCHANGED <<stdout, retval>>
    /\ pc' = "exit"
    /\ UNCHANGED <<args_vars, eval_vars, grad_vars, train_vars, argv>>

\* else: print('unknown command: %' % command) ...: the format string ends in a
\* bare %, so the % operator raises ValueError before anything is printed
MainUnknown ==
    /\ pc = "main"
    /\ Len(argv) >= 1
    /\ argv[1] \notin {"train", "plot"}
    /\ exc' = "ValueError"
    /\ exit_status' = <<1>>
    /\ pc' = "exit"
    /\ UNCHANGED <<args_vars, eval_vars, grad_vars, train_vars, argv, calls,
                   stdout, retval>>

NextMain ==
    \/ MainNoArgs
    \/ MainTrain
    \/ MainPlotMissing
    \/ MainPlot
    \/ MainUnknown

SpecMain == InitMain /\ [][NextMain]_vars

UsageError ==
    \/ Len(argv) = 0
    \/ Len(argv) >= 1 /\ argv[1] \notin {"train", "plot"}
    \/ Len(argv) = 1 /\ argv[1] = "plot"

\* C8: for an empty argv, an unrecognized subcommand and 'plot' without a
\* target, the process ends with a non-zero status and a printed usage message,
\* and neither train() nor plot() has been invoked.
C8_UsageErrors ==
    (pc = "exit" /\ UsageError)
        => /\ exit_status # <<0>>
           /\ Len(stdout) >= 1
           /\ calls = <<>>

====
